---------------------------- MODULE Spec2Model ----------------------------
(***************************************************************************)
(* A model of iitu_bot: the crawler (scraper/__init__.py), the vector      *)
(* store wrapper (database/__init__.py), the Telegram handlers             *)
(* (bot/__init__.py) and the command line pipeline (main.py).              *)
(*                                                                         *)
(* The program's state is split in four groups of variables.  Each group   *)
(* has its own specification, which leaves the other groups alone:         *)
(*   SpecCrawl  one run of IITUWebScraper.scrape_website                   *)
(*   SpecStore  VectorDatabase.build_knowledge_base and search             *)
(*   SpecBot    the message handlers, interleaved at their await points    *)
(*   SpecMain   main.py's setup / update commands                          *)
(***************************************************************************)
EXTENDS Integers, Sequences, FiniteSets, TLC

VARIABLES
    \* ---- IITUWebScraper ----
    crawl_pc,        \* "idle" | "loop" | "done": position in scrape_website
    max_pages,       \* self.max_pages (Config.MAX_PAGES_TO_SCRAPE)
    urls_to_visit,   \* the local list urls_to_visit of scrape_website
    visited_urls,    \* self.visited_urls
    scraped_data,    \* self.scraped_data
    fetches,         \* observation: url -> number of requests.get(url) calls
    \* ---- VectorDatabase and its ChromaDB backend ----
    store_pc,        \* position in build_knowledge_base, "returned" / "raised" at its end
    coll_exists,     \* the backend holds the collection self.collection refers to
    coll_entries,    \* the entries of that collection: {[id, document, metadata]}
    build_chunks,    \* the argument processed_chunks
    add_docs,        \* add_chunks: documents / metadatas / ids, zipped
    add_i,           \* add_chunks: the batch loop's i
    next_id,         \* the number of uuid4() identifiers drawn so far
    prior_entries,   \* observation: the store's content when build_knowledge_base was called
    relevance,       \* observation: the last is_relevant call, its answer from the
                     \*   backend and its value
    search_result,   \* observation: what the last search(query, n_results) returned
    \* ---- main.py: IITUBotApplication ----
    command,         \* sys.argv[1]: "setup" | "update"
    main_pc,         \* position in update_knowledge_base / setup_knowledge_base
    scraped_file,    \* data/scraped_data.json: [exists, data]
    processed_file,  \* data/processed_data.json: [exists, data]
    processed_data,  \* the local processed_data of setup_knowledge_base
    loaded_file,     \* observation: the file load_processed_data was given
    processor_calls, \* observation: number of process_all_data calls
    \* ---- IITUTelegramBot ----
    user_sessions,   \* self.user_sessions: user id -> session (present or not)
    handlers,        \* the handler coroutines in flight, each at an await
    msgs,            \* number of updates dispatched so far
    refinements,     \* observation: user -> refinements accepted since the last fresh query
    recorded,        \* observation: user -> every entry appended to the user's context
    session_base,    \* observation: user -> Len(recorded[user]) when handle_start last
                     \*   put a fresh session in the map
    last_event,      \* observation: what the last handler step did
    \* ---- ContentProcessor.improve_text_with_ai, character by character ----
    improve_pc,      \* "idle" | "start" | "called" | "returned"
    improve_text,    \* the argument text, a sequence of characters
    improve_prompt,  \* the part of text put into the prompt, once it is built
    improve_answer,  \* what model.generate_content(prompt) gave
    improve_result,  \* the value returned
    improve_calls,   \* observation: number of generate_content calls
    \* ---- the site ----
    link_graph       \* url -> the hrefs of its page, when the site is fixed
                     \*   beforehand (NoGraph otherwise)

crawlVars == <<crawl_pc, max_pages, urls_to_visit, visited_urls, scraped_data, fetches>>

storeVars == <<store_pc, coll_exists, coll_entries, build_chunks, add_docs, add_i,
               next_id, prior_entries, search_result,
              relevance>>

mainVars == <<command, main_pc, scraped_file, processed_file, processed_data,
              loaded_file, processor_calls>>

botVars == <<user_sessions, handlers, msgs, refinements, recorded, session_base,
             last_event>>

improveVars == <<improve_pc, improve_text, improve_prompt, improve_answer,
                 improve_result, improve_calls>>

vars == <<crawlVars, storeVars, mainVars, botVars, improveVars, link_graph>>

(***************************************************************************)
(* Bounds of the model.                                                    *)
(***************************************************************************)
MaxPagesBound == 3      \* max_pages ranges over 0..MaxPagesBound
MaxLinks == 2           \* a fetched page carries at most MaxLinks anchors
MaxMainPages == 2       \* max_pages ranges over 0..MaxMainPages under SpecMain
MAX_RETRIES == 1        \* Config.MAX_RETRIES, set by the environment
MaxMsgs == 3            \* updates dispatched under SpecBot
MaxSeqMsgs == 3         \* updates dispatched under SpecSeq
MaxWindowMsgs == 7      \* updates dispatched under SpecWindow

(***************************************************************************)
(* Helpers on sequences.                                                   *)
(***************************************************************************)
Range(s) == {s[i] : i \in 1..Len(s)}

BoundedSeq(S, n) == UNION {[1..k -> S] : k \in 0..n}

\* s[i:j] of Python for 0 <= i: the elements at 0-based positions i..j-1.
PySlice(s, i, j) == SubSeq(s, i + 1, IF j < Len(s) THEN j ELSE Len(s))

\* needle occurs in hay as a contiguous run (Python's `needle in hay` on text).
Contains(hay, needle) ==
    \E i \in 0..(Len(hay) - Len(needle)) :
        \A k \in 1..Len(needle) : hay[i + k] = needle[k]

(***************************************************************************)
(* The crawler: scraper/__init__.py                                        *)
(***************************************************************************)
\* Config.IITU_BASE_URL and the URLs a page of the site may link to.
base_url == "https://iitu.edu.kz"

URLS == {base_url, "https://iitu.edu.kz/a", "https://www.iitu.edu.kz/b",
         "https://iitu.edu.kz.evil.com/", "https://example.com/"}

\* urlparse(url).netloc, as its sequence of dot-separated labels.
Netloc(url) ==
    CASE url = "https://iitu.edu.kz"        -> <<"iitu", "edu", "kz">>
      [] url = "https://iitu.edu.kz/a"      -> <<"iitu", "edu", "kz">>
      [] url = "https://www.iitu.edu.kz/b"  -> <<"www", "iitu", "edu", "kz">>
      [] url = "https://iitu.edu.kz.evil.com/"
                                            -> <<"iitu", "edu", "kz", "evil", "com">>
      [] url = "https://example.com/"       -> <<"example", "com">>
      [] OTHER                              -> <<>>

\* is_valid_url: 'iitu.edu.kz' in parsed.netloc
is_valid_url(url) == Contains(Netloc(url), <<"iitu", "edu", "kz">>)

\* What requests.get(url) and the parse of its body give: a failure (any
\* exception inside scrape_page's try), or the page's text and the anchors'
\* hrefs already resolved by urljoin, in document order, repeats included.
FetchFailure == [ok |-> FALSE, content |-> "", hrefs |-> <<>>]

FetchOutcomes(contents, hrefLists) ==
    {FetchFailure} \cup
    {[ok |-> TRUE, content |-> c, hrefs |-> l] : c \in contents, l \in hrefLists}

\* No site fixed beforehand: every fetch may give anything.
NoGraph == <<>>

\* What requests.get(url) gives on the site graph, no fetch failing.
PageOf(graph, url) == [ok |-> TRUE, content |-> "text", hrefs |-> graph[url]]

NoError == "<no error key>"

\* extract_links: the hrefs that are on the domain and not yet visited.
extract_links(hrefs, visited) ==
    SelectSeq(hrefs, LAMBDA u : is_valid_url(u) /\ u \notin visited)

\* scrape_page with an except branch that keeps a partial content.
scrape_page_partial(url, outcome, visited) ==
    IF outcome.ok
    THEN [url |-> url, content |-> outcome.content,
          links |-> extract_links(outcome.hrefs, visited), error |-> NoError]
    ELSE [url |-> url, content |-> "partial", links |-> <<>>, error |-> "error"]

\* scrape_page: the page record; the except branch gives the error record.
scrape_page(url, outcome, visited) ==
    IF outcome.ok
    THEN [url |-> url, content |-> outcome.content,
          links |-> extract_links(outcome.hrefs, visited), error |-> NoError]
    ELSE [url |-> url, content |-> "", links |-> <<>>, error |-> "error"]

\* Lines 121-124 with urls_to_visit.insert(0, link).
RECURSIVE EnqueueLinksFront(_, _, _)
EnqueueLinksFront(queue, links, visited) ==
    IF links = <<>> THEN queue
    ELSE LET link == Head(links)
             q2 == IF link \notin visited /\ link \notin Range(queue)
                   THEN <<link>> \o queue ELSE queue
         IN  EnqueueLinksFront(q2, Tail(links), visited)

\* Lines 121-124 without the test `link not in urls_to_visit`.
RECURSIVE EnqueueLinksAgain(_, _, _)
EnqueueLinksAgain(queue, links, visited) ==
    IF links = <<>> THEN queue
    ELSE LET link == Head(links)
             q2 == IF link \notin visited THEN Append(queue, link) ELSE queue
         IN  EnqueueLinksAgain(q2, Tail(links), visited)

\* Lines 121-124: append every link that is neither visited nor queued.
RECURSIVE EnqueueLinks(_, _, _)
EnqueueLinks(queue, links, visited) ==
    IF links = <<>> THEN queue
    ELSE LET link == Head(links)
             q2 == IF link \notin visited /\ link \notin Range(queue)
                   THEN Append(queue, link) ELSE queue
         IN  EnqueueLinks(q2, Tail(links), visited)

\* Line 108 with <= in place of <.
LoopCondOffByOne == urls_to_visit # <<>> /\ Len(scraped_data) <= max_pages

\* The while condition of scrape_website (line 108).
LoopCond == urls_to_visit # <<>> /\ Len(scraped_data) < max_pages

\* scrape_website is entered: urls_to_visit = [self.base_url].
ScrapeWebsiteStart ==
    /\ crawl_pc = "idle"
    /\ crawl_pc' = "loop"
    /\ urls_to_visit' = <<base_url>>
    /\ UNCHANGED <<max_pages, visited_urls, scraped_data, fetches>>

\* The while loop with `if 'error' in page_data: continue` before line 118.
ScrapeWebsiteIterSkipFailed(outcome) ==
    /\ crawl_pc = "loop"
    /\ LoopCond
    /\ LET current_url == Head(urls_to_visit)
           rest == Tail(urls_to_visit)
       IN  IF current_url \in visited_urls
           THEN /\ urls_to_visit' = rest
                /\ UNCHANGED <<visited_urls, scraped_data, fetches>>
           ELSE LET visited2 == visited_urls \cup {current_url}
                    page_data == scrape_page(current_url, outcome, visited2)
                IN  /\ visited_urls' = visited2
                    /\ fetches' = [fetches EXCEPT ![current_url] = @ + 1]
                    /\ scraped_data' = IF outcome.ok
                                       THEN Append(scraped_data, page_data)
                                       ELSE scraped_data
                    /\ urls_to_visit' = EnqueueLinks(rest, page_data.links, visited2)
    /\ UNCHANGED <<crawl_pc, max_pages>>

\* One iteration of the while loop (lines 109-129).
ScrapeWebsiteIter(outcome) ==
    /\ crawl_pc = "loop"
    /\ LoopCond
    /\ LET current_url == Head(urls_to_visit)
           rest == Tail(urls_to_visit)
       IN  IF current_url \in visited_urls
           THEN /\ urls_to_visit' = rest
                /\ UNCHANGED <<visited_urls, scraped_data, fetches>>
           ELSE LET visited2 == visited_urls \cup {current_url}
                    page_data == scrape_page(current_url, outcome, visited2)
                IN  /\ visited_urls' = visited2
                    /\ fetches' = [fetches EXCEPT ![current_url] = @ + 1]
                    /\ scraped_data' = Append(scraped_data, page_data)
                    /\ urls_to_visit' = EnqueueLinks(rest, page_data.links, visited2)
    /\ UNCHANGED <<crawl_pc, max_pages>>

\* The loop ends and scrape_website returns self.scraped_data.
ScrapeWebsiteReturn ==
    /\ crawl_pc = "loop"
    /\ ~LoopCond
    /\ crawl_pc' = "done"
    /\ UNCHANGED <<max_pages, urls_to_visit, visited_urls, scraped_data, fetches>>

CrawlIdle ==
    /\ crawl_pc = "idle"
    /\ urls_to_visit = <<>>
    /\ visited_urls = {}
    /\ scraped_data = <<>>
    /\ fetches = [u \in URLS |-> 0]
    /\ link_graph = NoGraph

(***************************************************************************)
(* The vector store: database/__init__.py                                  *)
(***************************************************************************)
batch_size == 100

\* content.strip() is empty.
IsBlank(content) == content \in {"", " ", " \n"}

\* A chunk record as extract_all_chunks builds it (title and description,
\* which are only carried along, are left out).
Chunk(content, url, i, n) ==
    [content |-> content, source_url |-> url, chunk_index |-> i, total_chunks |-> n]

\* The metadata dictionary of lines 61-67.
Metadata(chunk) ==
    [source_url |-> chunk.source_url, chunk_index |-> chunk.chunk_index,
     total_chunks |-> chunk.total_chunks]

\* The 1-based positions in chunks of the chunks that pass the blank test of
\* line 55, in order.
Kept(chunks) ==
    SelectSeq([i \in 1..Len(chunks) |-> i], LAMBDA i : ~IsBlank(chunks[i].content))

\* batch_docs[k], batch_metas[k] and batch_ids[k] as the backend stores them.
Zip(documents, metadatas, ids) ==
    [k \in 1..Len(documents) |->
        [id |-> ids[k], document |-> documents[k], metadata |-> metadatas[k]]]

\* add_chunks with metadatas.append before the blank test.
PrepareDocsMetaFirst(chunks, id0) ==
    LET kept == Kept(chunks)
        documents == [k \in 1..Len(kept) |-> chunks[kept[k]].content]
        metadatas == [i \in 1..Len(chunks) |-> Metadata(chunks[i])]
        ids == [k \in 1..Len(kept) |-> id0 + kept[k]]
    IN  Zip(documents, metadatas, ids)

\* add_chunks, lines 45-69: one uuid4() per chunk, drawn before the blank
\* test; a blank chunk is skipped, the others are appended to the three
\* lists documents, metadatas and ids.  The k-th identifier drawn is the
\* number k.
PrepareDocs(chunks, id0) ==
    LET kept == Kept(chunks)
        documents == [k \in 1..Len(kept) |-> chunks[kept[k]].content]
        metadatas == [k \in 1..Len(kept) |-> Metadata(chunks[kept[k]])]
        ids == [k \in 1..Len(kept) |-> id0 + kept[k]]
    IN  Zip(documents, metadatas, ids)

\* What a caller can read from the store.
StoreContent == IF coll_exists THEN coll_entries ELSE {}

\* build_knowledge_base is called.
BuildKnowledgeBaseCall(chunks) ==
    /\ store_pc = "idle"
    /\ store_pc' = "delete"
    /\ build_chunks' = chunks
    /\ prior_entries' = StoreContent
    /\ UNCHANGED <<coll_exists, coll_entries, add_docs, add_i, next_id, search_result, relevance>>

\* clear_collection, line 137: client.delete_collection.  It raises when the
\* backend fails or the collection is gone; the except of line 143 swallows
\* that and clear_collection returns without creating anything.
ClearDelete(ok) ==
    /\ store_pc = "delete"
    /\ IF ok /\ coll_exists
       THEN /\ coll_exists' = FALSE
            /\ coll_entries' = {}
            /\ store_pc' = "create"
       ELSE /\ store_pc' = "add"
            /\ UNCHANGED <<coll_exists, coll_entries>>
    /\ UNCHANGED <<build_chunks, add_docs, add_i, next_id, prior_entries, search_result, relevance>>

\* clear_collection, lines 138-141: client.create_collection.  When it raises,
\* self.collection keeps referring to the deleted collection.
ClearCreate(ok) ==
    /\ store_pc = "create"
    /\ IF ok
       THEN /\ coll_exists' = TRUE
            /\ coll_entries' = {}
       ELSE UNCHANGED <<coll_exists, coll_entries>>
    /\ store_pc' = "add"
    /\ UNCHANGED <<build_chunks, add_docs, add_i, next_id, prior_entries, search_result, relevance>>

\* add_chunks up to the batch loop (lines 41-71).
AddChunksPrepare ==
    /\ store_pc = "add"
    /\ IF build_chunks = <<>>
       THEN /\ store_pc' = "info"
            /\ UNCHANGED <<add_docs, next_id>>
       ELSE LET docs == PrepareDocs(build_chunks, next_id)
            IN  /\ add_docs' = docs
                /\ next_id' = next_id + Len(build_chunks)
                /\ store_pc' = IF docs = <<>> THEN "info" ELSE "batch"
    /\ add_i' = 0
    /\ UNCHANGED <<coll_exists, coll_entries, build_chunks, prior_entries, search_result, relevance>>

\* One pass of the batch loop (lines 74-85): collection.add of one batch.  The
\* call is outside any try: when it raises, add_chunks and
\* build_knowledge_base are left by the exception.
AddBatch(ok) ==
    /\ store_pc = "batch"
    /\ IF ok /\ coll_exists
       THEN LET batch == PySlice(add_docs, add_i, add_i + batch_size)
            IN  /\ coll_entries' = coll_entries \cup Range(batch)
                /\ add_i' = add_i + batch_size
                /\ store_pc' = IF add_i + batch_size < Len(add_docs)
                               THEN "batch" ELSE "info"
       ELSE /\ store_pc' = "raised"
            /\ UNCHANGED <<coll_entries, add_i>>
    /\ UNCHANGED <<coll_exists, build_chunks, add_docs, next_id, prior_entries,
                   search_result, relevance>>

\* get_collection_info (line 157): a failing count() gives {}; then
\* build_knowledge_base returns.
BuildGetInfo(ok) ==
    /\ store_pc = "info"
    /\ store_pc' = "returned"
    /\ UNCHANGED <<coll_exists, coll_entries, build_chunks, add_docs, add_i, next_id,
                   prior_entries, search_result, relevance>>

\* Distances in tenths: 1 is 0.1.
DISTS == {1, 5, 6}

NonDecreasing(n) ==
    {ds \in [1..n -> DISTS] : \A i \in 1..(n - 1) : ds[i] <= ds[i + 1]}

\* The n entries the backend ranks first.  The ranking is the embedding's; the
\* model ranks by identifier.
RECURSIVE RankedFirst(_, _)
RankedFirst(entries, n) ==
    IF n = 0 \/ entries = {} THEN <<>>
    ELSE LET e == CHOOSE x \in entries : \A y \in entries : x.id <= y.id
         IN  <<e>> \o RankedFirst(entries \ {e}, n - 1)

Min(a, b) == IF a < b THEN a ELSE b

\* collection.query(query_texts=[query], n_results=k): a failure, or the hits.
BackendFailure == [ok |-> FALSE, documents |-> <<>>, metadatas |-> <<>>, distances |-> <<>>]

BackendHits(docs, metas, ds) ==
    [ok |-> TRUE, documents |-> docs, metadatas |-> metas, distances |-> ds]

\* search, lines 93-116: the hits as result records; [] on any exception.
search(response) ==
    IF ~response.ok THEN <<>>
    ELSE [i \in 1..Len(response.documents) |->
            [content |-> response.documents[i],
             metadata |-> response.metadatas[i],
             distance |-> response.distances[i]]]

\* How many hits the backend gives for n_results on the store as it is.
HitCount(n_results) == Min(n_results, Cardinality(StoreContent))

\* search(query, n_results) on this store by the caller of
\* build_knowledge_base, once it has returned or raised.  ds are the distances
\* the embedding gives the hits.
SearchStore(query, n_results, ok, ds) ==
    /\ store_pc \in {"returned", "raised"}
    /\ ~search_result.done /\ ~relevance.done
    /\ Len(ds) = HitCount(n_results)
    /\ LET top == RankedFirst(StoreContent, n_results)
           response ==
               IF ok /\ coll_exists
               THEN BackendHits([i \in 1..Len(top) |-> top[i].document],
                                [i \in 1..Len(top) |-> top[i].metadata], ds)
               ELSE BackendFailure
       IN  search_result' = [done |-> TRUE, query |-> query, n_results |-> n_results,
                             results |-> search(response)]
    /\ UNCHANGED <<store_pc, coll_exists, coll_entries, build_chunks, add_docs, add_i,
                   next_id, prior_entries, relevance>>

\* is_relevant with the similarity of no hit taken as 0.
is_relevant_zero(results, threshold) ==
    IF results # <<>>
    THEN 10 - results[1].distance >= threshold
    ELSE 0 >= threshold

\* is_relevant, lines 164-170, on the result of its search(query, 1).
\* Distances and thresholds are in tenths.
is_relevant(results, threshold) ==
    IF results # <<>>
    THEN 10 - results[1].distance >= threshold
    ELSE FALSE

\* is_relevant(query, threshold) on this store by the caller of
\* build_knowledge_base, once it has returned or raised.
IsRelevantCall(query, threshold, ok, ds) ==
    /\ store_pc \in {"returned", "raised"}
    /\ ~search_result.done /\ ~relevance.done
    /\ Len(ds) = HitCount(1)
    /\ LET top == RankedFirst(StoreContent, 1)
           response ==
               IF ok /\ coll_exists
               THEN BackendHits([i \in 1..Len(top) |-> top[i].document],
                                [i \in 1..Len(top) |-> top[i].metadata], ds)
               ELSE BackendFailure
       IN  relevance' = [done |-> TRUE, threshold |-> threshold, response |-> response,
                         value |-> is_relevant(search(response), threshold)]
    /\ UNCHANGED <<store_pc, coll_exists, coll_entries, build_chunks, add_docs, add_i,
                   next_id, prior_entries, search_result>>

NotAsked == [done |-> FALSE, threshold |-> 0, response |-> BackendFailure, value |-> FALSE]

NoSearch == [done |-> FALSE, query |-> "", n_results |-> 0, results |-> <<>>]

StoreIdle ==
    /\ store_pc = "idle"
    /\ coll_exists = TRUE
    /\ build_chunks = <<>>
    /\ add_docs = <<>>
    /\ add_i = 0
    /\ next_id = 0
    /\ prior_entries = {}
    /\ search_result = NoSearch
    /\ relevance = NotAsked

(***************************************************************************)
(* The processor: processor/__init__.py                                    *)
(***************************************************************************)
\* text.strip() for the texts of the model: a blank text strips to "".
StripNothing(text) == text

Strip(text) ==
    IF IsBlank(text) THEN ""
    ELSE IF text = " q1 " THEN "q1"
    ELSE text

\* What model.generate_content(prompt) gives: an exception, or a text.
AiFailure == [ok |-> FALSE, text |-> ""]

AiOutcomes(texts) == {AiFailure} \cup {[ok |-> TRUE, text |-> t] : t \in texts}

\* improve_text_with_ai: blank input comes back without a call; a failing
\* call gives the input back.
improve_text_with_ai(text, ai) ==
    IF IsBlank(text) THEN text
    ELSE IF ai.ok THEN Strip(ai.text) ELSE text

\* The same function on texts that are sequences of characters, with the
\* prompt it builds.  PROMPT_TEXT_LIMIT is the 2000 of text[:2000], line 38.
PROMPT_TEXT_LIMIT == 2000

Whitespace == {" ", "\n"}

\* not text.strip()
IsBlankText(text) == \A i \in 1..Len(text) : text[i] \in Whitespace

\* text.strip() on a sequence of characters.
StripText(text) ==
    IF IsBlankText(text) THEN <<>>
    ELSE LET inked == {i \in 1..Len(text) : text[i] \notin Whitespace}
             first == CHOOSE i \in inked : \A k \in inked : i <= k
             last == CHOOSE i \in inked : \A k \in inked : i >= k
         IN  SubSeq(text, first, last)

NoPrompt == [built |-> FALSE, text |-> <<>>]

NoAnswer == [ok |-> FALSE, text |-> <<>>]

\* The prompt with the whole text in it.
PromptTextWhole(text) == text

\* {text[:2000]} in the f-string of lines 33-50.
PromptText(text) == PySlice(text, 0, PROMPT_TEXT_LIMIT)

\* Lines 30-50: the blank test and the prompt.
ImproveTextStart ==
    /\ improve_pc = "start"
    /\ IF IsBlankText(improve_text)
       THEN /\ improve_pc' = "returned"
            /\ improve_result' = improve_text
            /\ UNCHANGED <<improve_prompt, improve_calls>>
       ELSE /\ improve_pc' = "called"
            /\ improve_prompt' = [built |-> TRUE, text |-> PromptText(improve_text)]
            /\ improve_calls' = improve_calls + 1
            /\ UNCHANGED improve_result
    /\ UNCHANGED <<improve_text, improve_answer>>

\* Lines 52-58: the answer of generate_content, or its exception.
ImproveTextAnswer(ai) ==
    /\ improve_pc = "called"
    /\ improve_pc' = "returned"
    /\ improve_answer' = ai
    /\ improve_result' = IF ai.ok THEN StripText(ai.text) ELSE improve_text
    /\ UNCHANGED <<improve_text, improve_prompt, improve_calls>>

ImproveIdle ==
    /\ improve_pc = "idle"
    /\ improve_text = <<>>
    /\ improve_prompt = NoPrompt
    /\ improve_answer = NoAnswer
    /\ improve_result = <<>>
    /\ improve_calls = 0

\* What RecursiveCharacterTextSplitter.split_text does to a text (the
\* splitter is langchain's): "one" chunk, "two" chunks, or an exception.
SplitKinds == {"one", "two", "raise"}

split_text(text, kind) ==
    IF kind = "one" THEN <<text>> ELSE <<text \o "/1", text \o "/2">>

\* create_chunks: no chunks for a blank text.
create_chunks(text, kind) == IF IsBlank(text) THEN <<>> ELSE split_text(text, kind)

\* A page record without the keys process_page_data adds.
Unprocessed(page, processing_error) ==
    [url |-> page.url, content |-> page.content, links |-> page.links,
     error |-> page.error, processed |-> FALSE, improved_content |-> "",
     chunks |-> <<>>, processing_error |-> processing_error]

\* process_page_data inside the try of process_all_data (lines 105-117): a
\* page with an error is passed on as it is; an exception while processing
\* gives the page with processing_error set.
process_page_data(page, o) ==
    IF page.error # NoError THEN Unprocessed(page, FALSE)
    ELSE LET improved == improve_text_with_ai(page.content, o.ai)
         IN  IF ~IsBlank(improved) /\ o.split = "raise"
             THEN Unprocessed(page, TRUE)
             ELSE [url |-> page.url, content |-> page.content, links |-> page.links,
                   error |-> page.error, processed |-> TRUE,
                   improved_content |-> improved,
                   chunks |-> create_chunks(improved, o.split),
                   processing_error |-> FALSE]

process_all_data(scraped, os) ==
    [i \in 1..Len(scraped) |-> process_page_data(scraped[i], os[i])]

\* extract_all_chunks with enumerate(page_data['chunks'], 1).
RECURSIVE extract_all_chunks_from_one(_)
extract_all_chunks_from_one(pages) ==
    IF pages = <<>> THEN <<>>
    ELSE LET page == Head(pages)
             n == Len(page.chunks)
         IN  (IF ~page.processed THEN <<>>
              ELSE [i \in 1..n |-> Chunk(page.chunks[i], page.url, i, n)])
             \o extract_all_chunks_from_one(Tail(pages))

\* extract_all_chunks: the chunk records of the processed pages, in order.
RECURSIVE extract_all_chunks(_)
extract_all_chunks(pages) ==
    IF pages = <<>> THEN <<>>
    ELSE LET page == Head(pages)
             n == Len(page.chunks)
         IN  (IF ~page.processed THEN <<>>
              ELSE [i \in 1..n |-> Chunk(page.chunks[i], page.url, i - 1, n)])
             \o extract_all_chunks(Tail(pages))

(***************************************************************************)
(* The command line: main.py                                               *)
(***************************************************************************)
NoFile == [exists |-> FALSE, data |-> <<>>]

File(data) == [exists |-> TRUE, data |-> data]

\* load_processed_data: the file's list, [] when there is no file.
load_processed_data(file) == IF file.exists THEN file.data ELSE <<>>

\* Line 56 with the test always true.
NeedsScrapeAlways(data) == TRUE

\* setup_knowledge_base, line 56: `if not processed_data`.
NeedsScrape(data) == data = <<>>

\* update_knowledge_base, lines 82-87: the two os.remove calls in one try; a
\* FileNotFoundError of the first skips the second.
UpdateRemoveFiles ==
    /\ main_pc = "remove"
    /\ IF scraped_file.exists
       THEN /\ scraped_file' = NoFile
            /\ processed_file' = NoFile
       ELSE UNCHANGED <<scraped_file, processed_file>>
    /\ main_pc' = "load"
    /\ UNCHANGED <<command, processed_data, loaded_file, processor_calls>>

\* setup_knowledge_base, lines 54-56.
SetupLoad ==
    /\ main_pc = "load"
    /\ processed_data' = load_processed_data(processed_file)
    /\ loaded_file' = processed_file
    /\ main_pc' = IF NeedsScrape(load_processed_data(processed_file))
                  THEN "scrape" ELSE "extract"
    /\ UNCHANGED <<command, scraped_file, processed_file, processor_calls>>

\* Line 60: self.scraper.scrape_website() is called.
SetupScrapeCall ==
    /\ main_pc = "scrape"
    /\ ScrapeWebsiteStart
    /\ main_pc' = "scraping"
    /\ UNCHANGED <<command, scraped_file, processed_file, processed_data,
                   loaded_file, processor_calls>>

\* The crawl's loop runs inside setup_knowledge_base.
SetupScrapeIter(outcome) ==
    /\ main_pc = "scraping"
    /\ ScrapeWebsiteIter(outcome)
    /\ UNCHANGED mainVars

\* Lines 60-61: scrape_website returns and save_scraped_data writes the file.
SetupScrapeReturn ==
    /\ main_pc = "scraping"
    /\ ScrapeWebsiteReturn
    /\ scraped_file' = File(scraped_data)
    /\ main_pc' = "process"
    /\ UNCHANGED <<command, processed_file, processed_data, loaded_file,
                   processor_calls>>

\* Lines 64-65: process_all_data and save_processed_data.
SetupProcess(os) ==
    /\ main_pc = "process"
    /\ processed_data' = process_all_data(scraped_data, os)
    /\ processed_file' = File(process_all_data(scraped_data, os))
    /\ processor_calls' = processor_calls + 1
    /\ main_pc' = "extract"
    /\ UNCHANGED <<command, scraped_file, loaded_file>>

\* Lines 70-73: extract_all_chunks, and build_knowledge_base is called.
SetupBuildCall ==
    /\ main_pc = "extract"
    /\ BuildKnowledgeBaseCall(extract_all_chunks(processed_data))
    /\ main_pc' = "building"
    /\ UNCHANGED <<command, scraped_file, processed_file, processed_data,
                   loaded_file, processor_calls>>

\* A step of build_knowledge_base made inside setup_knowledge_base.
InSetupBuild(step) ==
    /\ main_pc = "building"
    /\ step
    /\ UNCHANGED mainVars

\* build_knowledge_base returned, or left main by an exception.
SetupBuildEnd ==
    /\ main_pc = "building"
    /\ store_pc \in {"returned", "raised"}
    /\ main_pc' = IF store_pc = "returned" THEN "done" ELSE "crashed"
    /\ UNCHANGED <<command, scraped_file, processed_file, processed_data,
                   loaded_file, processor_calls>>

\* The bot is started whatever setup_knowledge_base is doing.
SetupReturnedOrNot == main_pc \in {"load", "scrape", "process", "extract", "building", "done"}

\* main, line 149: setup_knowledge_base() has returned.
SetupReturned == main_pc = "done"

\* main, lines 146-150, the default mode: after setup_knowledge_base the bot
\* is run and polls for updates.
RunBot ==
    /\ command = "default"
    /\ SetupReturned
    /\ main_pc' = "polling"
    /\ UNCHANGED <<command, scraped_file, processed_file, processed_data,
                   loaded_file, processor_calls>>

MainIdle ==
    /\ command = "setup"
    /\ main_pc = "none"
    /\ scraped_file = NoFile
    /\ processed_file = NoFile
    /\ processed_data = <<>>
    /\ loaded_file = NoFile
    /\ processor_calls = 0

(***************************************************************************)
(* The Telegram handlers: bot/__init__.py                                  *)
(*                                                                         *)
(* The dispatcher runs each update's handler as a coroutine.  A coroutine  *)
(* gives way to the others only where it awaits the Telegram API           *)
(* (message.answer, bot.send_chat_action): generate_content, search and    *)
(* the coroutines refine_query and generate_*_response, which await        *)
(* nothing, run without a break.  So each action below is the code from    *)
(* one such await to the next.  A call of the Telegram API may raise.      *)
(***************************************************************************)
USERS == {"u1", "u2"}

HANDLERS == {1, 2}

RELEVANCE_THRESHOLD == 5     \* is_relevant's default threshold 0.5, in tenths
GATE_N_RESULTS == 5          \* process_user_query: search(query, n_results=5)
CONTEXT_WINDOW == 5          \* process_user_query: the context keeps 5 entries

None == "<None>"

RAG_APOLOGY == "<rag apology>"

GENERAL_FALLBACK == "<general fallback>"

NoSession == [present |-> FALSE, retry_count |-> 0, last_query |-> None, context |-> <<>>]

\* The dict handle_start and handle_text put in self.user_sessions.
FreshSession == [present |-> TRUE, retry_count |-> 0, last_query |-> None, context |-> <<>>]

\* A handler coroutine: the command it handles, message.from_user.id, the
\* await it is at, and the query it carries.  entered is an observation: the
\* user's session when the handler was entered.
IdleHandler == [kind |-> "idle", user |-> "", pc |-> "", query |-> "", entered |-> NoSession]

\* A handler that takes the first user's id for every message.
RunningAsFirstUser(kind, user, pc, query) ==
    [kind |-> kind, user |-> "u1", pc |-> pc, query |-> query,
     entered |-> user_sessions[user]]

Running(kind, user, pc, query) ==
    [kind |-> kind, user |-> user, pc |-> pc, query |-> query,
     entered |-> user_sessions[user]]

\* What a step did: the completion and store calls it made and, for a step
\* through the Retrieval Gate, what the store answered and the path taken.
NotCalled == [ok |-> FALSE, documents |-> <<"<not called>">>, metadatas |-> <<>>,
              distances |-> <<>>]

AiNotCalled == [ok |-> FALSE, text |-> "<not called>"]

Event(op, user, ai_calls, searches) ==
    [op |-> op, user |-> user, ai_calls |-> ai_calls, searches |-> searches,
     r5 |-> NotCalled, r1 |-> NotCalled, path |-> "none",
     text |-> "", retry_before |-> 0, answer |-> AiNotCalled]

\* A response of collection.query with the given distances.
HitsOf(ds) ==
    BackendHits([i \in 1..Len(ds) |-> "doc"],
                [i \in 1..Len(ds) |-> [page_title |-> "page"]], ds)

\* The responses collection.query may give for n_results = k, at most maxHits
\* hits being in the store.
QueryOutcomes(k, maxHits) ==
    {BackendFailure} \cup
    {HitsOf(ds) : ds \in UNION {NonDecreasing(n) : n \in 0..Min(k, maxHits)}}

\* session['context'][-5:]: the last n entries.
LastN(context, n) ==
    SubSeq(context, IF Len(context) > n THEN Len(context) - n + 1 ELSE 1, Len(context))

\* Lines 197-199 with the context cut to 4 entries as soon as it holds 5.
TrimContextEarly(context) ==
    IF Len(context) > CONTEXT_WINDOW - 1
    THEN LastN(context, CONTEXT_WINDOW - 1) ELSE context

\* Lines 197-199 with [:5] in place of [-5:].
TrimContextKeepFirst(context) == SubSeq(context, 1, Min(CONTEXT_WINDOW, Len(context)))

\* Lines 197-199.
TrimContext(context) ==
    IF Len(context) > CONTEXT_WINDOW THEN LastN(context, CONTEXT_WINDOW) ELSE context

\* refine_query with an except branch that returns an empty query.
refine_query_empty(original_query, context, ai) ==
    IF ai.ok THEN Strip(ai.text) ELSE ""

\* refine_query: the refined text, the original query when the call fails.
refine_query(original_query, context, ai) ==
    IF ai.ok THEN Strip(ai.text) ELSE original_query

\* generate_rag_response with an except branch that returns an empty text.
generate_rag_response_empty(ai) == IF ai.ok THEN Strip(ai.text) ELSE ""

\* generate_rag_response, lines 238-243: the stripped answer, the fixed
\* apology when generate_content raises.
generate_rag_response(ai) == IF ai.ok THEN Strip(ai.text) ELSE RAG_APOLOGY

generate_general_response(ai) == IF ai.ok THEN Strip(ai.text) ELSE GENERAL_FALLBACK

\* Line 175 without the call of is_relevant.
TakesRagPathAny(search_results, r1) == search_results # <<>>

\* Line 175: `if search_results and self.vector_db.is_relevant(query)`.
\* is_relevant is only called, and searches again, when there are results.
TakesRagPath(search_results, r1) ==
    search_results # <<>> /\ is_relevant(search(r1), RELEVANCE_THRESHOLD)

\* Line 122 with the test always false.
NoLastQueryNever(session) == FALSE

\* Line 122: `if not session['last_query']`.
NoLastQuery(session) == session.last_query = None \/ session.last_query = ""

\* Line 126 with > in place of >=.
BudgetExhaustedLate(session) == session.retry_count > MAX_RETRIES

\* Line 126: the refinement budget is used up.
BudgetExhausted(session) == session.retry_count >= MAX_RETRIES

\* An update is dispatched to the free handler slot h.
Free(h, limit) ==
    /\ msgs < limit
    /\ handlers[h].kind = "idle"
    /\ \A g \in HANDLERS : g < h => handlers[g].kind # "idle"
    /\ msgs' = msgs + 1

\* /start: handle_start up to `await message.answer(welcome_text)`.
ReceiveStart(h, u, limit) ==
    /\ Free(h, limit)
    /\ handlers' = [handlers EXCEPT ![h] = Running("start", u, "welcome", "")]
    /\ last_event' = Event("start", u, 0, 0)
    /\ UNCHANGED <<user_sessions, refinements, recorded, session_base>>

\* handle_start after the await: lines 80-84 put a fresh session in the map,
\* whatever was there.  When the send raised, the handler ends before.
StartWelcomeDone(h, sent) ==
    /\ handlers[h].kind = "start" /\ handlers[h].pc = "welcome"
    /\ LET u == handlers[h].user
       IN  IF sent
           THEN /\ user_sessions' = [user_sessions EXCEPT ![u] = FreshSession]
                /\ session_base' = [session_base EXCEPT ![u] = Len(recorded[u])]
                /\ last_event' = Event("start_done", u, 0, 0)
           ELSE /\ UNCHANGED <<user_sessions, session_base>>
                /\ last_event' = Event("start_failed", u, 0, 0)
    /\ handlers' = [handlers EXCEPT ![h] = IdleHandler]
    /\ UNCHANGED <<msgs, refinements, recorded>>

\* Line 130 followed by session['last_query'] = refined_query.
AcceptedSessionRefined(session, refined) ==
    [session EXCEPT !.retry_count = @ + 1, !.last_query = refined]

\* Line 130: the only write of handle_return to the session.
AcceptedSession(session, refined) == [session EXCEPT !.retry_count = @ + 1]

\* /return: handle_return up to its first await (lines 114-135).
ReceiveReturn(h, u, limit, ai) ==
    /\ Free(h, limit)
    /\ LET session == user_sessions[u]
       IN  IF ~session.present
           THEN /\ handlers' = [handlers EXCEPT ![h] = Running("return", u, "reject", "")]
                /\ last_event' = Event("return_no_session", u, 0, 0)
                /\ UNCHANGED <<user_sessions, refinements>>
           ELSE IF NoLastQuery(session)
           THEN /\ handlers' = [handlers EXCEPT ![h] = Running("return", u, "reject", "")]
                /\ last_event' = Event("return_no_query", u, 0, 0)
                /\ UNCHANGED <<user_sessions, refinements>>
           ELSE IF BudgetExhausted(session)
           THEN /\ handlers' = [handlers EXCEPT ![h] = Running("return", u, "reject", "")]
                /\ last_event' = Event("return_budget", u, 0, 0)
                /\ UNCHANGED <<user_sessions, refinements>>
           ELSE LET refined == refine_query(session.last_query, session.context, ai)
                IN  /\ user_sessions' =
                           [user_sessions EXCEPT ![u] = AcceptedSession(@, refined)]
                    /\ refinements' = [refinements EXCEPT ![u] = @ + 1]
                    /\ handlers' =
                           [handlers EXCEPT ![h] = Running("return", u, "announce", refined)]
                    /\ last_event' =
                           [Event("return_accepted", u, 1, 0)
                               EXCEPT !.text = session.last_query,
                                      !.retry_before = session.retry_count,
                                      !.answer = ai]
    /\ UNCHANGED <<recorded, session_base>>

\* Lines 157-159 without the reset of retry_count.
NewQuerySessionKeepCount(session, user_query) ==
    [session EXCEPT !.last_query = user_query]

\* Lines 157-159: retry_count is reset and last_query is the stripped text.
NewQuerySession(session, user_query) ==
    [session EXCEPT !.retry_count = 0, !.last_query = user_query]

\* A text message: handle_text up to the await inside process_user_query
\* (lines 142-161 and 167).  strip() of a blank text is empty.
ReceiveText(h, u, limit, text) ==
    /\ Free(h, limit)
    /\ LET user_query == Strip(text)
       IN  IF user_query = ""
           THEN /\ handlers' = [handlers EXCEPT ![h] = Running("text", u, "reject", "")]
                /\ last_event' = [Event("text_blank", u, 0, 0) EXCEPT !.text = text]
                /\ UNCHANGED <<user_sessions, refinements>>
           ELSE LET session == IF user_sessions[u].present
                               THEN user_sessions[u] ELSE FreshSession
                IN  /\ user_sessions' =
                           [user_sessions EXCEPT
                               ![u] = NewQuerySession(session, user_query)]
                    /\ refinements' = [refinements EXCEPT ![u] = 0]
                    /\ handlers' =
                           [handlers EXCEPT ![h] = Running("text", u, "typing", user_query)]
                    /\ last_event' =
                           [Event("text_accepted", u, 0, 0)
                               EXCEPT !.text = text,
                                      !.retry_before = session.retry_count]
    /\ UNCHANGED <<recorded, session_base>>

\* The message of a rejected /return or blank text was sent, or the send
\* raised: the handler ends either way.
RejectDone(h) ==
    /\ handlers[h].pc = "reject"
    /\ handlers' = [handlers EXCEPT ![h] = IdleHandler]
    /\ last_event' = Event("reject_done", handlers[h].user, 0, 0)
    /\ UNCHANGED <<user_sessions, msgs, refinements, recorded, session_base>>

\* handle_return, lines 135-138: after the announcement process_user_query
\* starts and awaits send_chat_action.  When the announcement raised, the
\* handler ends.
AnnounceDone(h, sent) ==
    /\ handlers[h].pc = "announce"
    /\ handlers' = [handlers EXCEPT ![h] =
                       IF sent THEN [@ EXCEPT !.pc = "typing"] ELSE IdleHandler]
    /\ last_event' = Event(IF sent THEN "announce_done" ELSE "announce_failed",
                           handlers[h].user, 0, 0)
    /\ UNCHANGED <<user_sessions, msgs, refinements, recorded, session_base>>

\* process_user_query, lines 170-201: the Retrieval Gate, the answer, the
\* context; then the answer is being sent.  r5 and r1 are what the store
\* gives search(query, 5) and is_relevant's search(query, 1); ai is what the
\* completion service gives.  When send_chat_action raised, the except of
\* line 203 sends the apology.
GateStep(h, sent, r5, r1, ai) ==
    /\ handlers[h].pc = "typing"
    /\ LET u == handlers[h].user
           query == handlers[h].query
           search_results == search(r5)
           rag == TakesRagPath(search_results, r1)
           response == IF rag THEN generate_rag_response(ai)
                       ELSE generate_general_response(ai)
           entry == [query |-> query, response |-> response,
                     source |-> IF rag THEN "rag" ELSE "general"]
       IN  IF sent
           THEN /\ user_sessions' =
                       [user_sessions EXCEPT
                           ![u].context = TrimContext(Append(@, entry))]
                /\ recorded' = [recorded EXCEPT ![u] = Append(@, entry)]
                /\ handlers' = [handlers EXCEPT ![h].pc = "reply"]
                /\ last_event' =
                       [Event("gate", u, 1, IF search_results # <<>> THEN 2 ELSE 1)
                           EXCEPT !.r5 = r5,
                                  !.r1 = IF search_results # <<>> THEN r1 ELSE NotCalled,
                                  !.path = entry.source,
                                  !.answer = ai]
           ELSE /\ handlers' = [handlers EXCEPT ![h].pc = "apology"]
                /\ last_event' = Event("typing_failed", u, 0, 0)
                /\ UNCHANGED <<user_sessions, recorded>>
    /\ UNCHANGED <<msgs, refinements, session_base>>

\* The answer was sent and the handler ends, or the send raised and the
\* except of line 203 sends the apology.
ReplyDone(h, sent) ==
    /\ handlers[h].pc = "reply"
    /\ handlers' = [handlers EXCEPT ![h] =
                       IF sent THEN IdleHandler ELSE [@ EXCEPT !.pc = "apology"]]
    /\ last_event' = Event(IF sent THEN "reply_done" ELSE "reply_failed",
                           handlers[h].user, 0, 0)
    /\ UNCHANGED <<user_sessions, msgs, refinements, recorded, session_base>>

\* The apology of line 205 was sent, or its send raised: the handler ends.
ApologyDone(h) ==
    /\ handlers[h].pc = "apology"
    /\ handlers' = [handlers EXCEPT ![h] = IdleHandler]
    /\ last_event' = Event("apology_done", handlers[h].user, 0, 0)
    /\ UNCHANGED <<user_sessions, msgs, refinements, recorded, session_base>>

BotIdle ==
    /\ user_sessions = [u \in USERS |-> NoSession]
    /\ handlers = [h \in HANDLERS |-> IdleHandler]
    /\ msgs = 0
    /\ refinements = [u \in USERS |-> 0]
    /\ recorded = [u \in USERS |-> <<>>]
    /\ session_base = [u \in USERS |-> 0]
    /\ last_event = Event("none", "", 0, 0)

(***************************************************************************)
(* The specifications.                                                     *)
(***************************************************************************)
CrawlHrefLists == BoundedSeq(URLS, MaxLinks)

InitCrawl ==
    /\ CrawlIdle
    /\ max_pages \in 0..MaxPagesBound
    /\ StoreIdle /\ coll_entries = {}
    /\ MainIdle
    /\ BotIdle
    /\ ImproveIdle

NextCrawl ==
    \/ ScrapeWebsiteStart /\ UNCHANGED <<storeVars, mainVars, botVars, improveVars, link_graph>>
    \/ \E o \in FetchOutcomes({"text"}, CrawlHrefLists) :
          ScrapeWebsiteIter(o) /\ UNCHANGED <<storeVars, mainVars, botVars, improveVars, link_graph>>
    \/ ScrapeWebsiteReturn /\ UNCHANGED <<storeVars, mainVars, botVars, improveVars, link_graph>>

SpecCrawl == InitCrawl /\ [][NextCrawl]_vars

\* SpecCrawlLive: the same crawl, a max_pages below 1 included.  The loop is
\* sequential code that nothing suspends: a step that can be taken is taken.
InitCrawlLive ==
    /\ CrawlIdle
    /\ max_pages \in (0 - 1)..MaxPagesBound
    /\ StoreIdle /\ coll_entries = {}
    /\ MainIdle
    /\ BotIdle
    /\ ImproveIdle

SpecCrawlLive == InitCrawlLive /\ [][NextCrawl]_vars /\ WF_vars(NextCrawl)

\* SpecBfs: one crawl of a whole site whose link graph is fixed beforehand,
\* no fetch failing: every page links to any of the other pages of the site,
\* in one document order or the other, and max_pages is the number of pages.
SiteURLs == {u \in URLS : is_valid_url(u)}

SiteOrder ==
    <<base_url, "https://iitu.edu.kz/a", "https://www.iitu.edu.kz/b",
      "https://iitu.edu.kz.evil.com/">>

Reverse(s) == [i \in 1..Len(s) |-> s[Len(s) + 1 - i]]

\* The hrefs of a page that links to the pages in targets.
Hrefs(targets, reversed) ==
    LET l == SelectSeq(SiteOrder, LAMBDA u : u \in targets)
    IN  IF reversed THEN Reverse(l) ELSE l

SiteGraphs ==
    {[u \in SiteURLs |-> Hrefs(f[u] \ {u}, reversed)] :
        f \in [SiteURLs -> SUBSET SiteURLs], reversed \in BOOLEAN}

InitBfs ==
    /\ crawl_pc = "idle"
    /\ urls_to_visit = <<>>
    /\ visited_urls = {}
    /\ scraped_data = <<>>
    /\ fetches = [u \in URLS |-> 0]
    /\ link_graph \in SiteGraphs
    /\ max_pages = Cardinality(SiteURLs)
    /\ StoreIdle /\ coll_entries = {}
    /\ MainIdle
    /\ BotIdle
    /\ ImproveIdle

NextBfs ==
    \/ ScrapeWebsiteStart
          /\ UNCHANGED <<storeVars, mainVars, botVars, improveVars, link_graph>>
    \/ ScrapeWebsiteIter(PageOf(link_graph, Head(urls_to_visit)))
          /\ UNCHANGED <<storeVars, mainVars, botVars, improveVars, link_graph>>
    \/ ScrapeWebsiteReturn
          /\ UNCHANGED <<storeVars, mainVars, botVars, improveVars, link_graph>>

SpecBfs == InitBfs /\ [][NextBfs]_vars

\* SpecStore: one build_knowledge_base on a store that holds anything, every
\* backend call failing or not, and one search or is_relevant by the caller
\* once it has ended.
OldEntry(k) ==
    [id |-> 0 - k, document |-> "old" \o ToString(k),
     metadata |-> [source_url |-> "https://iitu.edu.kz/old", chunk_index |-> k - 1,
                   total_chunks |-> 2]]

PriorStores == {{}, {OldEntry(1)}, {OldEntry(1), OldEntry(2)}}

\* n chunks of one page, those at the positions in blanks being whitespace.
MakeChunks(n, blanks) ==
    [i \in 1..n |->
        Chunk(IF i \in blanks THEN " " ELSE "chunk" \o ToString(i),
              "https://iitu.edu.kz/a", i - 1, n)]

StoreChunkLists ==
    {MakeChunks(n, b) :
        n \in {0, 1, 2, batch_size + 1, 2 * batch_size + 1},
        b \in {{}, {2}, 1..(2 * batch_size + 1)}}

\* Thresholds in tenths: negative, zero, the default 0.5, and above it.
THRESHOLDS == {0 - 5, 0, RELEVANCE_THRESHOLD, 6}

InitStore ==
    /\ StoreIdle
    /\ coll_entries \in PriorStores
    /\ CrawlIdle /\ max_pages = 0
    /\ MainIdle
    /\ BotIdle
    /\ ImproveIdle

NextStore ==
    \/ \E chunks \in StoreChunkLists :
          BuildKnowledgeBaseCall(chunks) /\ UNCHANGED <<crawlVars, mainVars, botVars, improveVars, link_graph>>
    \/ \E ok \in BOOLEAN : ClearDelete(ok) /\ UNCHANGED <<crawlVars, mainVars, botVars, improveVars, link_graph>>
    \/ \E ok \in BOOLEAN : ClearCreate(ok) /\ UNCHANGED <<crawlVars, mainVars, botVars, improveVars, link_graph>>
    \/ AddChunksPrepare /\ UNCHANGED <<crawlVars, mainVars, botVars, improveVars, link_graph>>
    \/ \E ok \in BOOLEAN : AddBatch(ok) /\ UNCHANGED <<crawlVars, mainVars, botVars, improveVars, link_graph>>
    \/ \E ok \in BOOLEAN : BuildGetInfo(ok) /\ UNCHANGED <<crawlVars, mainVars, botVars, improveVars, link_graph>>
    \/ \E q \in {"q1"}, k \in {1, 5}, ok \in BOOLEAN :
          \E ds \in NonDecreasing(HitCount(k)) :
             SearchStore(q, k, ok, ds) /\ UNCHANGED <<crawlVars, mainVars, botVars, improveVars, link_graph>>
    \/ \E q \in {"q1"}, t \in THRESHOLDS, ok \in BOOLEAN :
          \E ds \in NonDecreasing(HitCount(1)) :
             IsRelevantCall(q, t, ok, ds) /\ UNCHANGED <<crawlVars, mainVars, botVars, improveVars, link_graph>>

SpecStore == InitStore /\ [][NextStore]_vars

\* SpecStoreOk: one build_knowledge_base with no backend call failing.
NextStoreOk ==
    \/ \E chunks \in StoreChunkLists :
          BuildKnowledgeBaseCall(chunks) /\ UNCHANGED <<crawlVars, mainVars, botVars, improveVars, link_graph>>
    \/ ClearDelete(TRUE) /\ UNCHANGED <<crawlVars, mainVars, botVars, improveVars, link_graph>>
    \/ ClearCreate(TRUE) /\ UNCHANGED <<crawlVars, mainVars, botVars, improveVars, link_graph>>
    \/ AddChunksPrepare /\ UNCHANGED <<crawlVars, mainVars, botVars, improveVars, link_graph>>
    \/ AddBatch(TRUE) /\ UNCHANGED <<crawlVars, mainVars, botVars, improveVars, link_graph>>
    \/ BuildGetInfo(TRUE) /\ UNCHANGED <<crawlVars, mainVars, botVars, improveVars, link_graph>>

SpecStoreOk == InitStore /\ [][NextStoreOk]_vars

\* SpecMain: `python main.py setup` and `python main.py update`, with any of
\* the two files of data/ present beforehand.
CachedScrapedPage ==
    [url |-> base_url, content |-> "cached text", links |-> <<>>, error |-> NoError]

CachedProcessedPage ==
    [url |-> base_url, content |-> "cached text", links |-> <<>>, error |-> NoError,
     processed |-> TRUE, improved_content |-> "cached text",
     chunks |-> <<"cached text">>, processing_error |-> FALSE]

MainHrefLists == {<<>>, <<"https://iitu.edu.kz/a">>, <<base_url, "https://example.com/">>}

ProcessOutcomes ==
    {[ai |-> a, split |-> k] : a \in AiOutcomes({"improved"}), k \in SplitKinds}

InitMain ==
    /\ CrawlIdle
    /\ max_pages \in 0..MaxMainPages
    /\ StoreIdle
    /\ coll_entries \in {{}, {OldEntry(1)}}
    /\ command \in {"setup", "update"}
    /\ main_pc = IF command = "update" THEN "remove" ELSE "load"
    /\ scraped_file \in {NoFile, File(<<CachedScrapedPage>>)}
    /\ processed_file \in {NoFile, File(<<>>), File(<<CachedProcessedPage>>)}
    /\ processed_data = <<>>
    /\ loaded_file = NoFile
    /\ processor_calls = 0
    /\ BotIdle
    /\ ImproveIdle

NextMain ==
    \/ UpdateRemoveFiles /\ UNCHANGED <<crawlVars, storeVars, botVars, improveVars, link_graph>>
    \/ SetupLoad /\ UNCHANGED <<crawlVars, storeVars, botVars, improveVars, link_graph>>
    \/ SetupScrapeCall /\ UNCHANGED <<storeVars, botVars, improveVars, link_graph>>
    \/ \E o \in FetchOutcomes({"text"}, MainHrefLists) :
          SetupScrapeIter(o) /\ UNCHANGED <<storeVars, botVars, improveVars, link_graph>>
    \/ SetupScrapeReturn /\ UNCHANGED <<storeVars, botVars, improveVars, link_graph>>
    \/ \E os \in [1..Len(scraped_data) -> ProcessOutcomes] :
          SetupProcess(os) /\ UNCHANGED <<crawlVars, storeVars, botVars, improveVars, link_graph>>
    \/ SetupBuildCall /\ UNCHANGED <<crawlVars, botVars, improveVars, link_graph>>
    \/ \E ok \in BOOLEAN : InSetupBuild(ClearDelete(ok)) /\ UNCHANGED <<crawlVars, botVars, improveVars, link_graph>>
    \/ \E ok \in BOOLEAN : InSetupBuild(ClearCreate(ok)) /\ UNCHANGED <<crawlVars, botVars, improveVars, link_graph>>
    \/ InSetupBuild(AddChunksPrepare) /\ UNCHANGED <<crawlVars, botVars, improveVars, link_graph>>
    \/ \E ok \in BOOLEAN : InSetupBuild(AddBatch(ok)) /\ UNCHANGED <<crawlVars, botVars, improveVars, link_graph>>
    \/ \E ok \in BOOLEAN : InSetupBuild(BuildGetInfo(ok)) /\ UNCHANGED <<crawlVars, botVars, improveVars, link_graph>>
    \/ SetupBuildEnd /\ UNCHANGED <<crawlVars, storeVars, botVars, improveVars, link_graph>>

SpecMain == InitMain /\ [][NextMain]_vars

\* The handlers' steps, for the users us in the handler slots hs, at most
\* limit updates being dispatched; the other arguments are what the
\* environment may give: the texts of messages, the completion service's
\* answers to refine_query (refineAis) and to generate_*_response (ais), and
\* the store's answers to search(query, 5) (r5s) and search(query, 1) (r1s).
nonBotVars == <<crawlVars, storeVars, mainVars, improveVars, link_graph>>

BotNext(hs, us, limit, texts, refineAis, r5s, r1s, ais) ==
    \/ \E h \in hs, u \in us :
          ReceiveStart(h, u, limit) /\ UNCHANGED nonBotVars
    \/ \E h \in hs, u \in us, ai \in refineAis :
          ReceiveReturn(h, u, limit, ai) /\ UNCHANGED nonBotVars
    \/ \E h \in hs, u \in us, t \in texts :
          ReceiveText(h, u, limit, t) /\ UNCHANGED nonBotVars
    \/ \E h \in hs, sent \in BOOLEAN :
          StartWelcomeDone(h, sent) /\ UNCHANGED nonBotVars
    \/ \E h \in hs : RejectDone(h) /\ UNCHANGED nonBotVars
    \/ \E h \in hs, sent \in BOOLEAN :
          AnnounceDone(h, sent) /\ UNCHANGED nonBotVars
    \/ \E h \in hs, sent \in BOOLEAN, r5 \in r5s, r1 \in r1s, ai \in ais :
          GateStep(h, sent, r5, r1, ai) /\ UNCHANGED nonBotVars
    \/ \E h \in hs, sent \in BOOLEAN :
          ReplyDone(h, sent) /\ UNCHANGED nonBotVars
    \/ \E h \in hs : ApologyDone(h) /\ UNCHANGED nonBotVars

InitBot ==
    /\ BotIdle
    /\ CrawlIdle /\ max_pages = 0
    /\ StoreIdle /\ coll_entries = {}
    /\ MainIdle
    /\ ImproveIdle

\* SpecBot: updates of two users, handled by up to two coroutines at a time,
\* the store and the completion service of the answers being down.
NextBot ==
    BotNext(HANDLERS, USERS, MaxMsgs, {" q1 ", " "}, AiOutcomes({"refined"}),
            {BackendFailure}, {BackendFailure}, {AiFailure})

SpecBot == InitBot /\ [][NextBot]_vars

\* SpecSeq: one user's updates handled one after the other, the store and
\* the completion service answering in every way.
NextSeq ==
    BotNext({1}, {"u1"}, MaxSeqMsgs, {"q1", " q1 ", " "}, AiOutcomes({"refined"}),
            QueryOutcomes(GATE_N_RESULTS, 2), QueryOutcomes(1, 2),
            AiOutcomes({"answer"}))

SpecSeq == InitBot /\ [][NextSeq]_vars

\* SpecWindow: one user's updates handled one after the other, long enough
\* for the context to overflow; the services are down, so that an entry is
\* told from another by its query alone.
NextWindow ==
    BotNext({1}, {"u1"}, MaxWindowMsgs, {"q1", "q2"}, {AiFailure},
            {BackendFailure}, {BackendFailure}, {AiFailure})

SpecWindow == InitBot /\ [][NextWindow]_vars

\* SpecDefault: `python main.py`: setup_knowledge_base, then the bot, which
\* handles up to MaxDefaultMsgs updates of one user, the services being down.
MaxDefaultMsgs == 2

InitDefault ==
    /\ CrawlIdle
    /\ max_pages \in 0..MaxMainPages
    /\ StoreIdle
    /\ coll_entries \in {{}, {OldEntry(1)}}
    /\ command = "default"
    /\ main_pc = "load"
    /\ scraped_file = NoFile
    /\ processed_file \in {NoFile, File(<<CachedProcessedPage>>)}
    /\ processed_data = <<>>
    /\ loaded_file = NoFile
    /\ processor_calls = 0
    /\ BotIdle
    /\ ImproveIdle

NextDefault ==
    \/ SetupLoad /\ UNCHANGED <<crawlVars, storeVars, botVars, improveVars, link_graph>>
    \/ SetupScrapeCall /\ UNCHANGED <<storeVars, botVars, improveVars, link_graph>>
    \/ \E o \in FetchOutcomes({"text"}, MainHrefLists) :
          SetupScrapeIter(o) /\ UNCHANGED <<storeVars, botVars, improveVars, link_graph>>
    \/ SetupScrapeReturn /\ UNCHANGED <<storeVars, botVars, improveVars, link_graph>>
    \/ \E os \in [1..Len(scraped_data) -> ProcessOutcomes] :
          SetupProcess(os) /\ UNCHANGED <<crawlVars, storeVars, botVars, improveVars, link_graph>>
    \/ SetupBuildCall /\ UNCHANGED <<crawlVars, botVars, improveVars, link_graph>>
    \/ \E ok \in BOOLEAN : InSetupBuild(ClearDelete(ok)) /\ UNCHANGED <<crawlVars, botVars, improveVars, link_graph>>
    \/ \E ok \in BOOLEAN : InSetupBuild(ClearCreate(ok)) /\ UNCHANGED <<crawlVars, botVars, improveVars, link_graph>>
    \/ InSetupBuild(AddChunksPrepare) /\ UNCHANGED <<crawlVars, botVars, improveVars, link_graph>>
    \/ \E ok \in BOOLEAN : InSetupBuild(AddBatch(ok)) /\ UNCHANGED <<crawlVars, botVars, improveVars, link_graph>>
    \/ \E ok \in BOOLEAN : InSetupBuild(BuildGetInfo(ok)) /\ UNCHANGED <<crawlVars, botVars, improveVars, link_graph>>
    \/ SetupBuildEnd /\ UNCHANGED <<crawlVars, storeVars, botVars, improveVars, link_graph>>
    \/ RunBot /\ UNCHANGED <<crawlVars, storeVars, botVars, improveVars, link_graph>>
    \/ /\ main_pc = "polling"
       /\ BotNext({1}, {"u1"}, MaxDefaultMsgs, {"q1"}, {AiFailure},
                  {BackendFailure}, {BackendFailure}, {AiFailure})

SpecDefault == InitDefault /\ [][NextDefault]_vars

\* SpecImprove: one improve_text_with_ai call on a text of up to MaxOver
\* characters, or within MaxOver characters of the prompt's limit.
MaxOver == 2

TextOf(n, fill, last) == [i \in 1..n |-> IF i = n THEN last ELSE fill]

ImproveLens ==
    (0..MaxOver) \cup ((PROMPT_TEXT_LIMIT - MaxOver)..(PROMPT_TEXT_LIMIT + MaxOver))

ImproveTexts ==
    {TextOf(n, fill, last) : n \in ImproveLens, fill \in {"a", " "}, last \in {"z", " "}}

ImproveAnswers ==
    {NoAnswer} \cup {[ok |-> TRUE, text |-> t] : t \in {<<>>, <<" ", "x", "\n">>, <<"y">>}}

InitImprove ==
    /\ CrawlIdle /\ max_pages = 0
    /\ StoreIdle /\ coll_entries = {}
    /\ MainIdle
    /\ BotIdle
    /\ improve_pc = "start"
    /\ improve_text \in ImproveTexts
    /\ improve_prompt = NoPrompt
    /\ improve_answer = NoAnswer
    /\ improve_result = <<>>
    /\ improve_calls = 0

NextImprove ==
    \/ ImproveTextStart /\ UNCHANGED <<crawlVars, storeVars, mainVars, botVars, link_graph>>
    \/ \E ai \in ImproveAnswers :
          ImproveTextAnswer(ai) /\ UNCHANGED <<crawlVars, storeVars, mainVars, botVars, link_graph>>

SpecImprove == InitImprove /\ [][NextImprove]_vars

(***************************************************************************)
(* C1: in one run of scrape_website started with an empty visited set and  *)
(* no results, no URL is fetched more than once and the number of          *)
(* collected page records never exceeds max_pages.                         *)
(***************************************************************************)
C1_FetchOnceAndBounded ==
    /\ \A u \in URLS : fetches[u] <= 1
    /\ Len(scraped_data) <= max_pages

\* The run ended on the largest page limit with URLs still queued, a failed
\* fetch being among the collected records.
C1_Witness ==
    /\ crawl_pc = "done"
    /\ Len(scraped_data) = max_pages
    /\ max_pages = MaxPagesBound
    /\ urls_to_visit # <<>>
    /\ \E i \in 1..Len(scraped_data) : scraped_data[i].error # NoError

(***************************************************************************)
(* C2: for every user, in every reachable state after any sequence and any *)
(* interleaving (at the awaits) of /start, text and /return handlers, the  *)
(* session's retry_count satisfies 0 <= retry_count <= MAX_RETRIES.        *)
(***************************************************************************)
C2_RetryCountInRange ==
    \A u \in USERS :
        /\ user_sessions[u].retry_count >= 0
        /\ user_sessions[u].retry_count <= MAX_RETRIES

\* Two /return handlers of one user are in flight: one was accepted and took
\* the last of the budget, the other was rejected.
C2_Witness ==
    \E h \in HANDLERS, g \in HANDLERS :
        /\ handlers[h].kind = "return" /\ handlers[h].pc = "announce"
        /\ handlers[g].kind = "return" /\ handlers[g].pc = "reject"
        /\ handlers[h].user = handlers[g].user
        /\ user_sessions[handlers[h].user].retry_count = MAX_RETRIES
        /\ last_event.op = "return_budget"

(***************************************************************************)
(* C3: after exactly MAX_RETRIES accepted refinements following a fresh    *)
(* query, the next /return from that user is rejected: the completion      *)
(* service is not called, the vector store is not searched, and            *)
(* retry_count, last_query and context are all unchanged, both when the    *)
(* /return is received and when its handler ends.                          *)
(***************************************************************************)
C3_ExhaustedReturnRejected ==
    [][\A h \in HANDLERS :
          /\ (/\ handlers[h].kind = "idle"
              /\ handlers'[h].kind = "return"
              /\ refinements[handlers'[h].user] = MAX_RETRIES)
             => /\ handlers'[h].pc = "reject"
                /\ user_sessions' = user_sessions
                /\ last_event'.ai_calls = 0
                /\ last_event'.searches = 0
          /\ (/\ handlers[h].kind = "return"
              /\ handlers[h].pc = "reject"
              /\ handlers'[h].kind = "idle")
             => /\ user_sessions' = user_sessions
                /\ last_event'.ai_calls = 0
                /\ last_event'.searches = 0]_vars

\* A /return was just rejected for its budget, after MAX_RETRIES accepted
\* refinements of the user's last query.
C3_Witness ==
    /\ last_event.op = "return_budget"
    /\ refinements[last_event.user] = MAX_RETRIES
    /\ user_sessions[last_event.user].last_query # None
    /\ \E h \in HANDLERS : handlers[h].pc = "reject" /\ handlers[h].user = last_event.user

(***************************************************************************)
(* C4: a session's context never holds more than 5 entries in any state    *)
(* observable between handler steps, and eviction is oldest-first: the     *)
(* context equals the last min(n, 5) of the n entries recorded since       *)
(* handle_start last put a fresh session in the map (all the entries ever  *)
(* recorded for the user when it never did), in arrival order; after 7     *)
(* sequential queries, exactly entries 3 to 7 in order.                    *)
(***************************************************************************)
SinceStart(u) == SubSeq(recorded[u], session_base[u] + 1, Len(recorded[u]))

C5_RagIffResultsAndRelevant ==
    last_event.op = "gate" =>
        LET r5 == last_event.r5
            r1 == last_event.r1
            hasResults == r5.ok /\ Len(r5.documents) >= 1
            relevant == /\ r1.ok
                        /\ Len(r1.documents) >= 1
                        /\ r1.distances[1] <= 10 - RELEVANCE_THRESHOLD
            ctx == user_sessions[last_event.user].context
        IN  /\ last_event.path \in {"rag", "general"}
            /\ last_event.path = "rag" <=> (hasResults /\ relevant)
            /\ ctx # <<>>
            /\ ctx[Len(ctx)].source = last_event.path
            /\ Len(SinceStart(last_event.user)) >= 1
            /\ ctx[Len(ctx)] = recorded[last_event.user][Len(recorded[last_event.user])]

\* A query took the RAG path with the best hit exactly at the threshold.
C5_Witness ==
    /\ last_event.op = "gate"
    /\ last_event.path = "rag"
    /\ last_event.r1.distances = <<10 - RELEVANCE_THRESHOLD>>
    /\ Len(last_event.r5.documents) = 2

(***************************************************************************)
(* C6: build_knowledge_base is atomic from the caller's view under every   *)
(* failure of the vector-store backend: when it returns or raises, the     *)
(* store holds either exactly the entries of the new non-blank chunks or   *)
(* exactly the content it held before the call.                            *)
(***************************************************************************)
NewEntries == Range(PrepareDocs(build_chunks, next_id - Len(build_chunks)))

SameEntries(a, b) ==
    {[document |-> e.document, metadata |-> e.metadata] : e \in a} =
    {[document |-> e.document, metadata |-> e.metadata] : e \in b}

C6_BuildIsAtomic ==
    store_pc \in {"returned", "raised"} =>
        \/ /\ Cardinality(StoreContent) = Cardinality(NewEntries)
           /\ SameEntries(StoreContent, NewEntries)
        \/ StoreContent = prior_entries

(***************************************************************************)
(* C7: for every prior store content, after build_knowledge_base([])       *)
(* returns, search(q, k) returns an empty sequence for every q and k.      *)
(***************************************************************************)
C7_EmptyBuildThenSearchEmpty ==
    (/\ store_pc = "returned"
     /\ build_chunks = <<>>
     /\ search_result.done)
    => search_result.results = <<>>

(***************************************************************************)
(* C8: the update command forces a full rebuild: for every combination of  *)
(* the two cached files existing or not beforehand, update discards both,  *)
(* then crawls and reprocesses the site, so the store is never rebuilt     *)
(* from processed data cached before the update.                           *)
(***************************************************************************)
C8_UpdateForcesFullRebuild ==
    command = "update" =>
        /\ main_pc = "load" => ~scraped_file.exists /\ ~processed_file.exists
        /\ main_pc \in {"extract", "building", "done", "crashed"}
              => /\ loaded_file = NoFile
                 /\ crawl_pc = "done"
                 /\ processor_calls = 1

(***************************************************************************)
(* C9: in setup_knowledge_base, whenever the processed-output file already *)
(* exists on disk and holds a list that is not empty, neither the crawler  *)
(* nor the page processor is invoked and the store is built from the       *)
(* cached records only.                                                    *)
(***************************************************************************)
BuiltFromCacheOnly ==
    /\ crawl_pc = "idle"
    /\ fetches = [u \in URLS |-> 0]
    /\ processor_calls = 0
    /\ processed_data = loaded_file.data
    /\ main_pc \in {"building", "done", "crashed"}
          => build_chunks = extract_all_chunks(loaded_file.data)

C9_NonEmptyCacheSkipsCrawl ==
    (/\ main_pc \in {"scrape", "scraping", "process", "extract", "building", "done",
                     "crashed"}
     /\ loaded_file.exists
     /\ loaded_file.data # <<>>)
    => BuiltFromCacheOnly

\* setup ended with the store built from the one cached page, nothing crawled.
C9_Witness ==
    /\ command = "setup"
    /\ main_pc = "done"
    /\ loaded_file = File(<<CachedProcessedPage>>)
    /\ crawl_pc = "idle"
    /\ processor_calls = 0
    /\ Cardinality(StoreContent) = 1

\* C9 as stated: whatever list the file contains, an empty list included.
C9_AnyCacheSkipsCrawl ==
    (/\ main_pc \in {"scrape", "scraping", "process", "extract", "building", "done",
                     "crashed"}
     /\ loaded_file.exists)
    => BuiltFromCacheOnly

(***************************************************************************)
(* C10: every failure of a network fetch, a completion-service call or a   *)
(* vector-store call is caught at the call and replaced by a safe default; *)
(* no such failure escapes from scrape_website, improve_text_with_ai,      *)
(* search, build_knowledge_base or the query-processing path.              *)
(***************************************************************************)
C10_NoFailureEscapes ==
    /\ store_pc # "raised"
    /\ main_pc # "crashed"

(***************************************************************************)
(* C11: during a crawl, every URL added to the frontier from a page's      *)
(* links is on the configured domain: a link whose domain does not match   *)
(* the configured domain is never enqueued and never fetched.              *)
(***************************************************************************)
\* The host of url is iitu.edu.kz or a subdomain of it.
OnDomain(url) ==
    LET host == Netloc(url)
        n == Len(host)
    IN  n >= 3 /\ SubSeq(host, n - 2, n) = <<"iitu", "edu", "kz">>

C11_OnlyOnDomainEnqueued ==
    /\ \A u \in Range(urls_to_visit) : OnDomain(u)
    /\ \A u \in URLS : fetches[u] > 0 => OnDomain(u)

(***************************************************************************)
(* C19: a fetch that fails yields a page record with error set and empty   *)
(* links and content; the URL is still marked visited and the record still *)
(* occupies one of the max_pages slots; the crawl is not aborted and       *)
(* continues with the remaining frontier.                                  *)
(***************************************************************************)
C19_FailedFetchRecorded ==
    [][(/\ Len(scraped_data') = Len(scraped_data) + 1
        /\ scraped_data'[Len(scraped_data')].error # NoError)
       => /\ scraped_data'[Len(scraped_data')].url = Head(urls_to_visit)
          /\ scraped_data'[Len(scraped_data')].content = ""
          /\ scraped_data'[Len(scraped_data')].links = <<>>
          /\ SubSeq(scraped_data', 1, Len(scraped_data)) = scraped_data
          /\ Len(scraped_data') <= max_pages
          /\ visited_urls' = visited_urls \cup {Head(urls_to_visit)}
          /\ urls_to_visit' = Tail(urls_to_visit)
          /\ crawl_pc' = "loop"]_vars

\* The second fetch failed and the crawl went on to collect a third page.
C19_Witness ==
    /\ Len(scraped_data) = 3
    /\ scraped_data[1].error = NoError
    /\ scraped_data[2].error # NoError
    /\ scraped_data[2].url \in visited_urls
    /\ scraped_data[3].error = NoError

(***************************************************************************)
(* C20: during a single crawl run the visited set only grows, and a URL    *)
(* that has been put on the frontier once is never put on it again: at     *)
(* every step the frontier has no duplicate entries and shares no URL with *)
(* the visited set.                                                        *)
(***************************************************************************)
NoDuplicates(s) == \A i \in 1..Len(s), j \in 1..Len(s) : s[i] = s[j] => i = j

C20_FrontierFresh ==
    /\ [](/\ NoDuplicates(urls_to_visit)
          /\ Range(urls_to_visit) \cap visited_urls = {})
    /\ [][/\ visited_urls \subseteq visited_urls'
          /\ Range(urls_to_visit) \subseteq Range(urls_to_visit') \cup visited_urls'
          /\ \A u \in Range(urls_to_visit') \ Range(urls_to_visit) :
                crawl_pc = "loop" => u \notin visited_urls \cup {Head(urls_to_visit)}]_vars

\* A page that links twice to one URL and back to visited pages was
\* collected: two URLs are visited and one waits on the frontier.
C20_Witness ==
    /\ Cardinality(visited_urls) = 2
    /\ Len(urls_to_visit) = 1
    /\ \E i \in 1..Len(scraped_data) : Len(scraped_data[i].links) = 2
                                        /\ scraped_data[i].links[1] = scraped_data[i].links[2]

(***************************************************************************)
(* C12: is_relevant(query, threshold) returns true exactly when            *)
(* search(query, 1) yields a hit whose distance d satisfies                *)
(* 1 - d >= threshold (with the default 0.5, d = 0.1 is relevant), and     *)
(* returns false for every threshold, those <= 0 included, whenever the    *)
(* search returns no results.                                              *)
(***************************************************************************)
C12_RelevantIffCloseHit ==
    relevance.done =>
        LET r == relevance.response
            hit == r.ok /\ Len(r.documents) >= 1
        IN  /\ relevance.value <=> (hit /\ 10 - r.distances[1] >= relevance.threshold)
            /\ ~hit => ~relevance.value
            /\ (hit /\ r.distances[1] = 1 /\ relevance.threshold = RELEVANCE_THRESHOLD)
                  => relevance.value

\* is_relevant was asked with a threshold below zero and the search had no
\* result: it answered false.
C12_Witness ==
    /\ relevance.done
    /\ relevance.threshold < 0
    /\ relevance.response.documents = <<>>
    /\ ~relevance.value

(***************************************************************************)
(* C13: whenever a non-empty text message (a fresh query) from a user is   *)
(* handled, then before the Retrieval Gate runs for it, when handle_text   *)
(* reaches its first await, that user's retry_count is 0 and last_query    *)
(* equals the message text stripped of surrounding whitespace; hence after *)
(* the budget was exhausted, the next fresh query makes up to MAX_RETRIES  *)
(* refinements acceptable again.                                           *)
(***************************************************************************)
C13_FreshQueryResets ==
    /\ [](last_event.op = "text_accepted" =>
            LET session == user_sessions[last_event.user]
            IN  /\ session.present
                /\ session.retry_count = 0
                /\ session.last_query = Strip(last_event.text)
                /\ session.last_query # ""
                /\ refinements[last_event.user] = 0
                /\ \E h \in HANDLERS : /\ handlers[h].kind = "text"
                                       /\ handlers[h].pc = "typing"
                                       /\ handlers[h].user = last_event.user
                                       /\ handlers[h].query = session.last_query)
    /\ [][\A h \in HANDLERS :
            (/\ handlers[h].kind = "idle"
             /\ handlers'[h].kind = "return"
             /\ user_sessions[handlers'[h].user].present
             /\ user_sessions[handlers'[h].user].last_query # None
             /\ refinements[handlers'[h].user] < MAX_RETRIES)
            => /\ handlers'[h].pc = "announce"
               /\ last_event'.op = "return_accepted"]_vars

\* A fresh query with surrounding whitespace arrived when the budget was
\* used up, and reset it.
C13_Witness ==
    /\ last_event.op = "text_accepted"
    /\ last_event.retry_before = MAX_RETRIES
    /\ last_event.text = " q1 "
    /\ user_sessions[last_event.user].retry_count = 0
    /\ user_sessions[last_event.user].last_query = "q1"

\* C13 as stated: last_query equals the message text.
C13_LastQueryIsMessageText ==
    last_event.op = "text_accepted" =>
        /\ user_sessions[last_event.user].retry_count = 0
        /\ user_sessions[last_event.user].last_query = last_event.text

(***************************************************************************)
(* C14: a /return from a user who has no session, or whose session has no  *)
(* last_query, is rejected with a guidance message and changes nothing: no *)
(* session is created, retry_count, last_query and context are unchanged,  *)
(* and neither the completion service nor the vector store is called, both *)
(* when the /return is received and when its handler ends.                 *)
(***************************************************************************)
C14_ReturnWithoutQueryRejected ==
    [][\A h \in HANDLERS :
          /\ (/\ handlers[h].kind = "idle"
              /\ handlers'[h].kind = "return"
              /\ \/ ~user_sessions[handlers'[h].user].present
                 \/ user_sessions[handlers'[h].user].last_query = None)
             => /\ handlers'[h].pc = "reject"
                /\ user_sessions' = user_sessions
                /\ refinements' = refinements
                /\ last_event'.op \in {"return_no_session", "return_no_query"}
                /\ last_event'.ai_calls = 0
                /\ last_event'.searches = 0
          /\ (/\ handlers[h].kind = "return"
              /\ handlers[h].pc = "reject"
              /\ handlers'[h].kind = "idle")
             => /\ user_sessions' = user_sessions
                /\ last_event'.ai_calls = 0
                /\ last_event'.searches = 0]_vars

\* A /return was just rejected for a user whose session, made by /start, has
\* no last_query.
C14_Witness ==
    /\ last_event.op = "return_no_query"
    /\ user_sessions[last_event.user] = FreshSession
    /\ \E h \in HANDLERS : /\ handlers[h].kind = "return"
                           /\ handlers[h].pc = "reject"
                           /\ handlers[h].user = last_event.user

(***************************************************************************)
(* C15: a text message that is empty after stripping whitespace is         *)
(* rejected early: no session is created or modified (retry_count and      *)
(* last_query keep their values) and no vector-store or completion-service *)
(* call is made, both when the message is received and when its handler    *)
(* ends.                                                                   *)
(***************************************************************************)
C15_BlankTextRejected ==
    [][\A h \in HANDLERS :
          /\ (/\ handlers[h].kind = "idle"
              /\ handlers'[h].kind = "text"
              /\ IsBlank(last_event'.text))
             => /\ handlers'[h].pc = "reject"
                /\ user_sessions' = user_sessions
                /\ refinements' = refinements
                /\ last_event'.ai_calls = 0
                /\ last_event'.searches = 0
          /\ (/\ handlers[h].kind = "text"
              /\ handlers[h].pc = "reject"
              /\ handlers'[h].kind = "idle")
             => /\ user_sessions' = user_sessions
                /\ last_event'.ai_calls = 0
                /\ last_event'.searches = 0]_vars

\* A blank text was just rejected for a user whose refinement budget is used
\* up: the session is as it was.
C15_Witness ==
    /\ last_event.op = "text_blank"
    /\ last_event.text = " "
    /\ user_sessions[last_event.user].present
    /\ user_sessions[last_event.user].retry_count = MAX_RETRIES
    /\ user_sessions[last_event.user].last_query = "q1"
    /\ \E h \in HANDLERS : /\ handlers[h].kind = "text"
                           /\ handlers[h].pc = "reject"

(***************************************************************************)
(* C16: once a user's session exists the user has a session for the        *)
(* process lifetime: no handler removes it, and only handle_start replaces *)
(* it with a fresh one.  Apart from that, its last_query is only ever      *)
(* overwritten by a newer fresh query, and context entries disappear only  *)
(* through oldest-first eviction when more than 5 are held.                *)
(***************************************************************************)
\* The context after entry e was recorded: the oldest entry goes when 5 are held.
Recorded(context, e) ==
    IF Len(context) < CONTEXT_WINDOW
    THEN Append(context, e) ELSE Append(Tail(context), e)

\* What a step other than the session's replacement by handle_start may do
\* to the session of u.
KeepsSession(u) ==
    LET s == user_sessions[u]
        t == user_sessions'[u]
    IN  /\ t.present
        /\ t.last_query # s.last_query
              => /\ last_event'.op = "text_accepted"
                 /\ last_event'.user = u
                 /\ t.last_query = Strip(last_event'.text)
        /\ t.context # s.context
              => /\ last_event'.op = "gate"
                 /\ last_event'.user = u
        /\ (last_event'.op = "gate" /\ last_event'.user = u)
              => t.context = Recorded(s.context, recorded'[u][Len(recorded'[u])])

ReplacedByStart(u) ==
    /\ last_event'.op = "start_done"
    /\ last_event'.user = u
    /\ user_sessions'[u] = FreshSession

C17_OtherSessionsUntouched ==
    /\ [](\A u \in USERS : ~user_sessions[u].present => user_sessions[u] = NoSession)
    /\ [][\A u \in USERS :
            u # last_event'.user => user_sessions'[u] = user_sessions[u]]_vars

\* The store and the completion service failed for a query of u1 while a
\* handler of u2, whose session holds a query, was in flight.
C17_Witness ==
    /\ last_event.op = "gate"
    /\ last_event.user = "u1"
    /\ ~last_event.r5.ok
    /\ user_sessions["u1"].context # <<>>
    /\ user_sessions["u1"].context[1].response = GENERAL_FALLBACK
    /\ user_sessions["u2"].last_query = "q1"
    /\ user_sessions["u2"].context = <<>>
    /\ \E h \in HANDLERS : handlers[h].user = "u2" /\ handlers[h].pc = "typing"

(***************************************************************************)
(* C18: the shared session map supports concurrent insert-if-absent        *)
(* without lost updates: under any interleaving of handlers at the awaits, *)
(* a handler that creates a session never overwrites a session already     *)
(* present for that user, so nothing another handler wrote to the session  *)
(* while the creating handler was suspended is lost.                       *)
(***************************************************************************)
C18_NoLostUpdate ==
    [][\A h \in HANDLERS :
          (/\ handlers[h].kind = "start"
           /\ handlers'[h].kind = "idle"
           /\ user_sessions[handlers[h].user].present
           /\ user_sessions[handlers[h].user] # handlers[h].entered)
          => user_sessions'[handlers[h].user] = user_sessions[handlers[h].user]]_vars

(***************************************************************************)
(* C21: every query that reaches the Retrieval Gate, fresh or refined,     *)
(* appends exactly one entry {query, response, source} to that user's      *)
(* context, with source = 'rag' exactly when the RAG path was taken and    *)
(* 'general' otherwise; this also holds when the completion service fails, *)
(* in which case the fixed fallback string is the recorded response.       *)
(***************************************************************************)
\* Handler h goes through the Retrieval Gate in this step.
ThroughGate(h) == handlers[h].pc = "typing" /\ handlers'[h].pc = "reply"

C21_OneEntryPerGate ==
    [][/\ \A h \in HANDLERS :
            ThroughGate(h) =>
               LET u == handlers[h].user
                   e == recorded'[u][Len(recorded'[u])]
                   ctx == user_sessions'[u].context
                   r5 == last_event'.r5
                   r1 == last_event'.r1
                   rag == /\ r5.ok /\ r5.documents # <<>>
                          /\ r1.ok /\ r1.documents # <<>>
                          /\ 10 - r1.distances[1] >= RELEVANCE_THRESHOLD
               IN  /\ recorded'[u] = Append(recorded[u], e)
                   /\ Len(ctx) >= 1 /\ ctx[Len(ctx)] = e
                   /\ Len(ctx) <= Len(user_sessions[u].context) + 1
                   /\ DOMAIN e = {"query", "response", "source"}
                   /\ e.query = handlers[h].query
                   /\ e.source = IF rag THEN "rag" ELSE "general"
                   /\ e.source = last_event'.path
                   /\ e.response = IF last_event'.answer.ok
                                   THEN Strip(last_event'.answer.text)
                                   ELSE IF rag THEN RAG_APOLOGY ELSE GENERAL_FALLBACK
       /\ \A u \in USERS :
            recorded'[u] # recorded[u]
               => \E h \in HANDLERS : ThroughGate(h) /\ handlers[h].user = u]_vars

\* A refined query took the RAG path with the completion service failing:
\* the apology is the recorded response.
C21_Witness ==
    /\ last_event.op = "gate"
    /\ last_event.path = "rag"
    /\ ~last_event.answer.ok
    /\ \E h \in HANDLERS : handlers[h].kind = "return" /\ handlers[h].pc = "reply"
    /\ Len(recorded[last_event.user]) = 2
    /\ recorded[last_event.user][2] =
          [query |-> "refined", response |-> RAG_APOLOGY, source |-> "rag"]

(***************************************************************************)
(* C22: improve_text_with_ai is best-effort: when the completion service   *)
(* fails it returns the input unchanged and never raises; the text put in  *)
(* the prompt is the prefix of at most 2000 characters of the input; blank *)
(* input is returned without any call.                                     *)
(***************************************************************************)
C22_ImproveIsBestEffort ==
    /\ improve_pc \in {"start", "called", "returned"}
    /\ improve_pc = "start" => improve_calls = 0
    /\ improve_pc # "start" /\ IsBlankText(improve_text) =>
          /\ improve_pc = "returned"
          /\ improve_calls = 0
          /\ ~improve_prompt.built
          /\ improve_result = improve_text
    /\ improve_pc # "start" /\ ~IsBlankText(improve_text) =>
          LET sent == improve_prompt.text
          IN  /\ improve_calls = 1
              /\ improve_prompt.built
              /\ Len(sent) <= PROMPT_TEXT_LIMIT
              /\ Len(sent) = IF Len(improve_text) < PROMPT_TEXT_LIMIT
                             THEN Len(improve_text) ELSE PROMPT_TEXT_LIMIT
              /\ \A i \in 1..Len(sent) : sent[i] = improve_text[i]
              /\ improve_pc = "returned" /\ ~improve_answer.ok =>
                    improve_result = improve_text

\* A text longer than the limit, cut in the prompt, came back whole after
\* the completion service failed.
C22_Witness ==
    /\ improve_pc = "returned"
    /\ Len(improve_text) > PROMPT_TEXT_LIMIT
    /\ Len(improve_prompt.text) = PROMPT_TEXT_LIMIT
    /\ improve_calls = 1
    /\ ~improve_answer.ok
    /\ improve_result = improve_text

(***************************************************************************)
(* C23: every chunk record of extract_all_chunks has                       *)
(* 0 <= chunk_index < total_chunks, total_chunks being the number of       *)
(* chunks of its page, and the records of a page carry the indices         *)
(* 0..total_chunks-1 exactly once and in order; a page with a fetch error  *)
(* or a processing error contributes no record.                            *)
(***************************************************************************)
\* The records of the page at url, in the order of the list handed to
\* build_knowledge_base.
RecordsOf(url) == SelectSeq(build_chunks, LAMBDA c : c.source_url = url)

C23_ChunkIndicesExact ==
    main_pc \in {"building", "done", "crashed"} =>
       /\ \A k \in 1..Len(build_chunks) :
             /\ 0 <= build_chunks[k].chunk_index
             /\ build_chunks[k].chunk_index < build_chunks[k].total_chunks
             /\ \E p \in 1..Len(processed_data) :
                   processed_data[p].url = build_chunks[k].source_url
       /\ \A p \in 1..Len(processed_data) :
             LET page == processed_data[p]
                 mine == RecordsOf(page.url)
             IN  IF page.error # NoError \/ page.processing_error
                 THEN mine = <<>>
                 ELSE /\ Len(mine) = Len(page.chunks)
                      /\ \A i \in 1..Len(mine) :
                            /\ mine[i].chunk_index = i - 1
                            /\ mine[i].total_chunks = Len(page.chunks)
                            /\ mine[i].content = page.chunks[i]

\* A page split in two chunks and a page whose fetch failed went through
\* extract_all_chunks together.
C23_Witness ==
    /\ main_pc = "building"
    /\ Len(processed_data) = 2
    /\ processed_data[1].error = NoError /\ Len(processed_data[1].chunks) = 2
    /\ processed_data[2].error # NoError
    /\ Len(build_chunks) = 2
    /\ build_chunks[2].chunk_index = 1

(***************************************************************************)
(* C24: after build_knowledge_base(chunks) with no backend failure the     *)
(* store holds exactly one entry per non-blank input chunk, each under a   *)
(* distinct identifier, the content and the metadata of an entry being     *)
(* those of the same chunk whatever the 100-entry batch boundaries; blank  *)
(* chunks are skipped without error.                                       *)
(***************************************************************************)
\* The positions of the non-blank chunks of the build's argument.
NonBlank == {i \in 1..Len(build_chunks) : ~IsBlank(build_chunks[i].content)}

\* Entry e is chunk i: its content and its metadata.
IsChunk(e, i) ==
    /\ e.document = build_chunks[i].content
    /\ e.metadata.source_url = build_chunks[i].source_url
    /\ e.metadata.chunk_index = build_chunks[i].chunk_index
    /\ e.metadata.total_chunks = build_chunks[i].total_chunks

C24_OneEntryPerChunk ==
    /\ store_pc # "raised"
    /\ store_pc = "returned" =>
          /\ coll_exists
          /\ Cardinality(coll_entries) = Cardinality(NonBlank)
          /\ Cardinality({e.id : e \in coll_entries}) = Cardinality(NonBlank)
          /\ \A i \in NonBlank : \E e \in coll_entries : IsChunk(e, i)
          /\ \A e \in coll_entries : \E i \in NonBlank : IsChunk(e, i)

\* A list of three batches with a blank chunk in the first was built over a
\* store that held entries.
C24_Witness ==
    /\ store_pc = "returned"
    /\ prior_entries # {}
    /\ Len(build_chunks) = 2 * batch_size + 1
    /\ IsBlank(build_chunks[2].content)
    /\ Cardinality(coll_entries) = 2 * batch_size

(***************************************************************************)
(* C26: an accepted /return increments retry_count by exactly 1 before the *)
(* completion service is called; when the call fails the refined query     *)
(* equals last_query, the gate is still run with it and recorded in the    *)
(* context, and retry_count is not rolled back.                            *)
(***************************************************************************)
\* Handler h accepts a /return in this step.
AcceptsReturn(h) ==
    /\ handlers[h].kind = "idle"
    /\ handlers'[h].kind = "return"
    /\ handlers'[h].pc = "announce"

C26_FailedRefinementStillCounts ==
    [][\A h \in HANDLERS :
          /\ AcceptsReturn(h) =>
                LET u == handlers'[h].user
                IN  /\ user_sessions'[u].retry_count = user_sessions[u].retry_count + 1
                    /\ last_event'.ai_calls = 1
                    /\ ~last_event'.answer.ok =>
                          handlers'[h].query = user_sessions[u].last_query
          /\ handlers[h].kind = "return" /\ handlers[h].pc = "announce" =>
                LET u == handlers[h].user
                IN  /\ user_sessions'[u].retry_count = user_sessions[u].retry_count
                    /\ last_event'.op = "announce_done" =>
                          /\ handlers'[h].pc = "typing"
                          /\ handlers'[h].query = handlers[h].query
          /\ handlers[h].kind = "return" /\ handlers[h].pc = "typing" =>
                LET u == handlers[h].user
                    ctx == user_sessions'[u].context
                IN  /\ user_sessions'[u].retry_count = user_sessions[u].retry_count
                    /\ last_event'.op = "gate" =>
                          /\ Len(ctx) >= 1
                          /\ ctx[Len(ctx)].query = handlers[h].query
                          /\ recorded'[u] = Append(recorded[u], ctx[Len(ctx)])
          /\ handlers[h].kind = "return" /\ handlers[h].pc \in {"reply", "apology"} =>
                user_sessions'[handlers[h].user].retry_count
                   = user_sessions[handlers[h].user].retry_count]_vars

\* The refinement of "q1" failed: "q1" itself went through the gate and
\* into the context, and the attempt stays counted.
C26_Witness ==
    /\ last_event.op = "gate"
    /\ \E h \in HANDLERS : handlers[h].kind = "return" /\ handlers[h].query = "q1"
    /\ user_sessions["u1"].last_query = "q1"
    /\ user_sessions["u1"].retry_count = 1
    /\ Len(user_sessions["u1"].context) = 2
    /\ user_sessions["u1"].context[2].query = "q1"

RECURSIVE Within(_)
Within(k) ==
    IF k = 0 THEN {base_url}
    ELSE Within(k - 1) \cup UNION {Range(link_graph[u]) : u \in Within(k - 1)}

\* The link distance of a page that can be reached from the seed.
Distance(u) ==
    CHOOSE k \in 0..Cardinality(SiteURLs) :
        u \in Within(k) /\ \A j \in 0..(k - 1) : u \notin Within(j)

C27_BreadthFirst ==
    /\ scraped_data # <<>> => scraped_data[1].url = base_url
    /\ \A i \in 1..Len(scraped_data) :
          scraped_data[i].url \in Within(Cardinality(SiteURLs))
    /\ \A i, j \in 1..Len(scraped_data) :
          i < j => Distance(scraped_data[i].url) <= Distance(scraped_data[j].url)

\* A site crawled to the end whose pages lie at the distances 0, 1, 1 and 2.
C27_Witness ==
    /\ crawl_pc = "done"
    /\ Len(scraped_data) = 4
    /\ Distance(scraped_data[2].url) = 1
    /\ Distance(scraped_data[3].url) = 1
    /\ Distance(scraped_data[4].url) = 2

(***************************************************************************)
(* C29: scrape_website terminates for every link graph and every pattern   *)
(* of fetch failures: each iteration either collects one more page towards *)
(* max_pages or removes an already-visited URL from the frontier, so the   *)
(* loop ends after at most max_pages fetches (zero fetches when            *)
(* max_pages <= 0).                                                        *)
(***************************************************************************)
RECURSIVE SumOver(_, _)
SumOver(f, S) ==
    IF S = {} THEN 0
    ELSE LET x == CHOOSE y \in S : TRUE IN f[x] + SumOver(f, S \ {x})

\* The number of requests.get calls so far.
TotalFetches == SumOver(fetches, URLS)

C29_CrawlTerminates ==
    /\ <>(crawl_pc = "done")
    /\ [](TotalFetches <= IF max_pages > 0 THEN max_pages ELSE 0)
    /\ [][crawl_pc = "loop" /\ crawl_pc' = "loop" =>
             \/ /\ Len(scraped_data') = Len(scraped_data) + 1
                /\ Len(scraped_data') <= max_pages
                /\ TotalFetches' = TotalFetches + 1
             \/ /\ Head(urls_to_visit) \in visited_urls
                /\ urls_to_visit' = Tail(urls_to_visit)
                /\ scraped_data' = scraped_data
                /\ TotalFetches' = TotalFetches]_vars

\* The crawl ended below the page limit: the second fetch failed and left
\* nothing to visit.
C29_Witness ==
    /\ crawl_pc = "done"
    /\ max_pages = MaxPagesBound
    /\ Len(scraped_data) = 2
    /\ scraped_data[2].error # NoError
    /\ urls_to_visit = <<>>
    /\ TotalFetches = 2

(***************************************************************************)
(* C30: in the default run mode (no subcommand) the crawl, the processing  *)
(* and the store rebuild all complete before the bot starts polling, so    *)
(* within one process no user message is handled while a crawl or a        *)
(* rebuild is in progress.                                                 *)
(***************************************************************************)
\* An update has been dispatched, or a handler is running.
BotActive == msgs > 0 \/ \E h \in HANDLERS : handlers[h].kind # "idle"

\* No crawl, processing or rebuild is under way.
SetupAtRest ==
    /\ crawl_pc \in {"idle", "done"}
    /\ store_pc = "returned"
    /\ build_chunks = extract_all_chunks(processed_data)

C30_SetupBeforePolling ==
    /\ [](main_pc = "polling" => SetupAtRest)
    /\ [](BotActive => main_pc = "polling")
    /\ [][main_pc = "polling" =>
             /\ main_pc' = "polling"
             /\ crawlVars' = crawlVars
             /\ storeVars' = storeVars
             /\ <<scraped_file, processed_file, processed_data>>'
                   = <<scraped_file, processed_file, processed_data>>]_vars

\* A query went through the gate of a bot started after a crawl, the
\* processing and the rebuild of the store.
C30_Witness ==
    /\ main_pc = "polling"
    /\ crawl_pc = "done"
    /\ Len(scraped_data) >= 1
    /\ processor_calls = 1
    /\ store_pc = "returned"
    /\ last_event.op = "gate"

=============================================================================
